---- MODULE Spec2Model ----
(***************************************************************************)
(* Restaurant table booking: the availability checker and the booking      *)
(* lifecycle of backend.py over the PostgreSQL store (postgres_driver.py), *)
(* with the schema constraints of models/booking.py.                       *)
(*                                                                         *)
(* Times of day are whole hours; a date is a day number.  None stands for  *)
(* Python's None / SQL NULL.                                               *)
(***************************************************************************)
EXTENDS Integers, FiniteSets, Sequences, TLC

\* ---------------------------------------------------------------- bounds
\* Largest id the bookings SERIAL sequence hands out in a run.
MaxBookingId == 2

\* ------------------------------------------------------------ value sets
\* Python's None / SQL NULL, apart from every id and every time of day
None == -1

TableIds == {1, 2}
UserIds == {1}
Dates == {1, 2}
Times == {20, 21, 22, 23}
\* the dates and times of day the callers of the lifecycle put in a draft
DraftDates == {1}
DraftTimes == {21, 22, 23}
Statuses == {"pending", "confirmed", "cancelled", "completed"}
\* the status of a table, a column apart from is_active
TableStatuses == {"available", "reserved", "occupied"}
BookingIds == 1..MaxBookingId

\* hours in a day: datetime.time() of a datetime drops the day
HoursPerDay == 24
\* timedelta(hours=2.0), the duration assumed for a row with no end time
DefaultDuration == 2

VARIABLES
    users,      \* table users: the set of stored user ids
    tables,     \* table restaurant_tables: id -> row
    bookings,   \* table bookings: id -> row
    nextId,     \* next value of the bookings id sequence
    last,       \* the call the caller is in: its arguments and what it returned
    calls,      \* the concurrent create_booking requests: where each one is
    failed,     \* the store accesses of the caller's call that raised an error
    ops         \* the operations that open a connection of their own: where each is

vars == <<users, tables, bookings, nextId, last, calls, failed, ops>>

\* ------------------------------------------------------------- the store

\* Booking.to_dict: the columns written for a booking.  A draft without an
\* end time gets booking_time + 2 hours, taken as a time of day.
to_dict(b) ==
    [user_id |-> b.user_id,
     table_id |-> b.table_id,
     booking_date |-> b.booking_date,
     booking_time |-> b.booking_time,
     booking_end_time |->
        IF b.booking_end_time # None THEN b.booking_end_time
        ELSE (b.booking_time + DefaultDuration) % HoursPerDay,
     number_of_guests |-> b.number_of_guests,
     status |-> b.status]

\* The constraints of CREATE TABLE bookings that a written row must meet.
RowAccepted(row) ==
    /\ row.number_of_guests > 0
    /\ row.booking_end_time > row.booking_time
    /\ row.user_id \in users
    /\ row.table_id \in DOMAIN tables

\* read_table: the stored table as <<row>>, or << >> for None
read_table(table_id) ==
    IF table_id \in DOMAIN tables THEN <<tables[table_id]>> ELSE << >>

\* read_bookings with where = {table_id}: the rows of the table on any date
read_bookings_any_date(table_id, booking_date) ==
    {i \in DOMAIN bookings : bookings[i].table_id = table_id}

\* read_bookings with where = {booking_date}: the rows of the date, any table
read_bookings_any_table(table_id, booking_date) ==
    {i \in DOMAIN bookings : bookings[i].booking_date = booking_date}

\* read_bookings(where = {table_id, booking_date}): ids of the matching rows
read_bookings(table_id, booking_date) ==
    {i \in DOMAIN bookings :
        /\ bookings[i].table_id = table_id
        /\ bookings[i].booking_date = booking_date}

\* ------------------------------------------------ check_table_availability

\* the end of a stored booking as the checker takes it
existing_time_end(b) ==
    IF b.booking_end_time # None THEN b.booking_end_time
    ELSE (b.booking_time + DefaultDuration) % HoursPerDay

\* Overlaps with the boundaries taken as part of both intervals
OverlapsClosed(new_start, new_end, existing_start, existing_end) ==
    ~(new_end < existing_start \/ new_start > existing_end)

\* Overlaps testing only whether the new booking starts inside the existing one
OverlapsStartInside(new_start, new_end, existing_start, existing_end) ==
    existing_start <= new_start /\ new_start < existing_end

\* Overlaps testing only whether the new booking ends inside the existing one
OverlapsEndInside(new_start, new_end, existing_start, existing_end) ==
    existing_start < new_end /\ new_end <= existing_end

\* the overlap test of the checker's loop
Overlaps(new_start, new_end, existing_start, existing_end) ==
    ~(new_end <= existing_start \/ new_start >= existing_end)

\* active_bookings without the exclusion of exclude_booking_id
active_bookings_no_exclude(rows, exclude_booking_id) ==
    {i \in rows : bookings[i].status \in {"pending", "confirmed"}}

\* active_bookings without the filter on the status
active_bookings_any_status(rows, exclude_booking_id) ==
    {i \in rows : exclude_booking_id = None \/ i # exclude_booking_id}

\* the rows the loop runs over
active_bookings(rows, exclude_booking_id) ==
    {i \in rows :
        /\ bookings[i].status \in {"pending", "confirmed"}
        /\ (exclude_booking_id = None \/ i # exclude_booking_id)}

\* the rows of active_bookings the loop would stop at
Conflicting(rows, new_start, new_end, exclude_booking_id) ==
    {i \in active_bookings(rows, exclude_booking_id) :
        Overlaps(new_start, new_end,
                 bookings[i].booking_time, existing_time_end(bookings[i]))}

NoResult ==
    [available |-> FALSE, table_exists |-> FALSE, table_active |-> FALSE,
     conflicting_booking |-> None]

\* TableResult taking the table's status for is_active
TableResultByStatus(table) ==
    IF table = << >> THEN NoResult
    ELSE IF table[1].status # "available"
    THEN [NoResult EXCEPT !.table_exists = TRUE]
    ELSE [NoResult EXCEPT !.table_exists = TRUE, !.table_active = TRUE]

\* TableResult going on to the bookings without looking at is_active
TableResultAnyActive(table) ==
    IF table = << >> THEN NoResult
    ELSE [NoResult EXCEPT !.table_exists = TRUE, !.table_active = TRUE]

\* TableResult setting table_exists before it looks at the table
TableResultExistsFirst(table) ==
    IF table = << >> THEN [NoResult EXCEPT !.table_exists = TRUE]
    ELSE IF ~table[1].is_active THEN [NoResult EXCEPT !.table_exists = TRUE]
    ELSE [NoResult EXCEPT !.table_exists = TRUE, !.table_active = TRUE]

\* The checker's result after read_table: table_exists and table_active
\* set as far as the table allows; the checker returns it as it is unless
\* the table is active.
TableResult(table) ==
    IF table = << >> THEN NoResult
    ELSE IF ~table[1].is_active THEN [NoResult EXCEPT !.table_exists = TRUE]
    ELSE [NoResult EXCEPT !.table_exists = TRUE, !.table_active = TRUE]

\* BookingResults of a loop that goes on after a conflict and ends with
\* available set
BookingResults_no_return(result, rows, booking_time, booking_end_time, exclude_booking_id) ==
    LET conflicts == Conflicting(rows, booking_time, booking_end_time,
                                 exclude_booking_id)
    IN IF conflicts = {}
       THEN {[result EXCEPT !.available = TRUE]}
       ELSE {[result EXCEPT !.conflicting_booking = i, !.available = TRUE] :
                i \in conflicts}

\* The results the checker's loop over the rows just read can end with: it
\* stops at the first conflicting row in the order the store returns the
\* rows, which the query does not fix.
BookingResults(result, rows, booking_time, booking_end_time, exclude_booking_id) ==
    LET conflicts == Conflicting(rows, booking_time, booking_end_time,
                                 exclude_booking_id)
    IN IF conflicts = {}
       THEN {[result EXCEPT !.available = TRUE]}
       ELSE {[result EXCEPT !.conflicting_booking = i] : i \in conflicts}

\* The results check_table_availability can return in the current store.
check_table_availability(table_id, booking_date, booking_time, booking_end_time, exclude_booking_id) ==
    LET result == TableResult(read_table(table_id)) IN
    IF ~result.table_active THEN {result}
    ELSE BookingResults(result, read_bookings(table_id, booking_date),
                        booking_time, booking_end_time, exclude_booking_id)

\* ------------------------------------------------------------ the inputs

\* a booking as a caller may hand it to create_booking / update_booking
Drafts ==
    [user_id : UserIds,
     table_id : TableIds,
     booking_date : DraftDates,
     booking_time : DraftTimes,
     booking_end_time : DraftTimes \cup {None},
     number_of_guests : {0, 1},
     status : Statuses]

NoDraft ==
    [user_id |-> None, table_id |-> None, booking_date |-> None,
     booking_time |-> None, booking_end_time |-> None,
     number_of_guests |-> None, status |-> "none"]

\* the arguments of a check_table_availability call, as a draft
Candidate(table_id, booking_date, booking_time, booking_end_time) ==
    [NoDraft EXCEPT !.table_id = table_id, !.booking_date = booking_date,
                    !.booking_time = booking_time,
                    !.booking_end_time = booking_end_time]

\* What the caller holds of the call it is in: the operation, the booking
\* or table id it named (exclude_booking_id for the checker), the draft it
\* passed, the id returned (create_booking), the boolean returned
\* (update_*, delete_*), and the checker's result when the checker ran.
Called(op, id, draft, ret, ok, checked, avail) ==
    [op |-> op, id |-> id, draft |-> draft, ret |-> ret, ok |-> ok,
     checked |-> checked, avail |-> avail]

Idle == Called("none", None, NoDraft, None, FALSE, FALSE, NoResult)

\* the request flows that call create_booking at the same time
Procs == {1, 2}

\* A create_booking call in flight: the store access it makes next (pc), its
\* booking, its availability_result so far and, once it is done, the id it
\* returned (None for a rejection).
InFlight(pc, booking, avail, ret) ==
    [pc |-> pc, booking |-> booking, avail |-> avail, ret |-> ret]

NoCall == InFlight("idle", NoDraft, NoResult, None)

\* An operation that opens a connection of its own (a read_* function
\* called without a driver, create_all_tables): the operation, where it is,
\* the state of the connection it opened ("none" before connect and when
\* connect raised), the models whose table it has created, and what it
\* returns.
Op(op, pc, connection, models_done, result) ==
    [op |-> op, pc |-> pc, connection |-> connection,
     models_done |-> models_done, result |-> result]

NoOp == Op("none", "idle", "none", 0, "none")

\* ---------------------------------------------------------------- Init
\* The restaurant's users and tables are entered, no booking is stored.
Init ==
    /\ users = UserIds
    /\ tables = [t \in TableIds |->
                    [is_active |-> TRUE, status |-> "available"]]
    /\ bookings = << >>
    /\ nextId = 1
    /\ last = Idle
    /\ calls = [p \in Procs |-> NoCall]
    /\ failed = {}
    /\ ops = [p \in Procs |-> NoOp]

\* ------------------------------------------------------------ the calls

\* Insert with a sequence that steps back to an id it has handed out
Insert_same_id(row) ==
    /\ bookings' = [i \in DOMAIN bookings \cup {nextId} |->
                        IF i = nextId THEN row ELSE bookings[i]]
    /\ nextId' = IF nextId > 1 THEN nextId - 1 ELSE nextId + 1

\* driver.create on bookings: the row is stored under the next id of the
\* sequence (the caller has checked the constraints with RowAccepted).
Insert(row) ==
    /\ bookings' = [i \in DOMAIN bookings \cup {nextId} |->
                        IF i = nextId THEN row ELSE bookings[i]]
    /\ nextId' = nextId + 1

\* create_booking(booking, driver)
create_booking(booking) ==
    /\ nextId <= MaxBookingId
    /\ IF booking.booking_end_time = None
       THEN /\ last' = Called("create_booking", None, booking, None, FALSE,
                              FALSE, NoResult)
            /\ UNCHANGED <<bookings, nextId>>
       ELSE \E availability_result \in
                check_table_availability(booking.table_id,
                    booking.booking_date, booking.booking_time,
                    booking.booking_end_time, None) :
              IF ~availability_result.available
              THEN /\ last' = Called("create_booking", None, booking, None,
                                     FALSE, TRUE, availability_result)
                   /\ UNCHANGED <<bookings, nextId>>
              ELSE IF RowAccepted(to_dict(booking))
              THEN /\ Insert(to_dict(booking))
                   /\ last' = Called("create_booking", None, booking, nextId,
                                     TRUE, TRUE, availability_result)
              ELSE /\ last' = Called("create_booking", None, booking, None,
                                     FALSE, TRUE, availability_result)
                   /\ UNCHANGED <<bookings, nextId>>
    /\ UNCHANGED <<users, tables, calls, failed, ops>>

\* update_booking writing only when the checker, called with
\* exclude_booking_id = booking_id, answers available
update_booking_rechecked(booking_id, booking) ==
    /\ IF /\ booking_id \in DOMAIN bookings
          /\ RowAccepted(to_dict(booking))
          /\ \A result \in check_table_availability(booking.table_id,
                 booking.booking_date, booking.booking_time,
                 to_dict(booking).booking_end_time, booking_id) :
                result.available
       THEN /\ bookings' = [bookings EXCEPT ![booking_id] = to_dict(booking)]
            /\ last' = Called("update_booking", booking_id, booking, None,
                              TRUE, FALSE, NoResult)
       ELSE /\ last' = Called("update_booking", booking_id, booking, None,
                              FALSE, FALSE, NoResult)
            /\ UNCHANGED bookings
    /\ UNCHANGED <<users, tables, nextId, calls, failed, ops>>

\* update_booking(booking_id, booking, driver): UPDATE ... WHERE id = booking_id
update_booking(booking_id, booking) ==
    /\ IF booking_id \in DOMAIN bookings /\ RowAccepted(to_dict(booking))
       THEN /\ bookings' = [bookings EXCEPT ![booking_id] = to_dict(booking)]
            /\ last' = Called("update_booking", booking_id, booking, None,
                              TRUE, FALSE, NoResult)
       ELSE /\ last' = Called("update_booking", booking_id, booking, None,
                              FALSE, FALSE, NoResult)
            /\ UNCHANGED bookings
    /\ UNCHANGED <<users, tables, nextId, calls, failed, ops>>

\* delete_booking deleting only a booking of an active table
delete_booking_active_table(booking_id) ==
    /\ IF /\ booking_id \in DOMAIN bookings
          /\ tables[bookings[booking_id].table_id].is_active
       THEN /\ bookings' = [i \in DOMAIN bookings \ {booking_id} |-> bookings[i]]
            /\ last' = Called("delete_booking", booking_id, NoDraft, None,
                              TRUE, FALSE, NoResult)
       ELSE /\ last' = Called("delete_booking", booking_id, NoDraft, None,
                              FALSE, FALSE, NoResult)
            /\ UNCHANGED bookings
    /\ UNCHANGED <<users, tables, nextId, calls, failed, ops>>

\* delete_booking returning rows_affected >= 0
delete_booking_always_true(booking_id) ==
    /\ bookings' = [i \in DOMAIN bookings \ {booking_id} |-> bookings[i]]
    /\ last' = Called("delete_booking", booking_id, NoDraft, None, TRUE,
                      FALSE, NoResult)
    /\ UNCHANGED <<users, tables, nextId, calls, failed, ops>>

\* delete_booking(booking_id, driver): DELETE ... WHERE id = booking_id
delete_booking(booking_id) ==
    /\ IF booking_id \in DOMAIN bookings
       THEN /\ bookings' = [i \in DOMAIN bookings \ {booking_id} |-> bookings[i]]
            /\ last' = Called("delete_booking", booking_id, NoDraft, None,
                              TRUE, FALSE, NoResult)
       ELSE /\ last' = Called("delete_booking", booking_id, NoDraft, None,
                              FALSE, FALSE, NoResult)
            /\ UNCHANGED bookings
    /\ UNCHANGED <<users, tables, nextId, calls, failed, ops>>

\* a call of check_table_availability by the caller (the availability tab)
CheckAvailability(table_id, booking_date, booking_time, booking_end_time, exclude_booking_id) ==
    /\ \E result \in check_table_availability(table_id, booking_date,
                        booking_time, booking_end_time, exclude_booking_id) :
          last' = Called("check_table_availability", exclude_booking_id,
                         Candidate(table_id, booking_date, booking_time,
                                   booking_end_time),
                         None, result.available, TRUE, result)
    /\ UNCHANGED <<users, tables, bookings, nextId, calls, failed, ops>>

\* update_table(table_id, table, driver), as far as is_active goes
update_table(table_id, is_active) ==
    /\ IF table_id \in DOMAIN tables
       THEN /\ tables' = [tables EXCEPT ![table_id].is_active = is_active]
            /\ last' = Called("update_table", table_id, NoDraft, None, TRUE,
                              FALSE, NoResult)
       ELSE /\ last' = Called("update_table", table_id, NoDraft, None, FALSE,
                              FALSE, NoResult)
            /\ UNCHANGED tables
    /\ UNCHANGED <<users, bookings, nextId, calls, failed, ops>>

\* delete_table(table_id, driver): the bookings' foreign key restricts it
delete_table(table_id) ==
    /\ IF /\ table_id \in DOMAIN tables
          /\ \A i \in DOMAIN bookings : bookings[i].table_id # table_id
       THEN /\ tables' = [t \in DOMAIN tables \ {table_id} |-> tables[t]]
            /\ last' = Called("delete_table", table_id, NoDraft, None, TRUE,
                              FALSE, NoResult)
       ELSE /\ last' = Called("delete_table", table_id, NoDraft, None, FALSE,
                              FALSE, NoResult)
            /\ UNCHANGED tables
    /\ UNCHANGED <<users, bookings, nextId, calls, failed, ops>>

\* ------------------------------------------------- the sequential caller
\* One caller (the GUI) makes one call at a time and takes its result
\* before the next.

CreateBooking ==
    /\ last = Idle
    /\ \E booking \in Drafts : create_booking(booking)

UpdateBooking ==
    /\ last = Idle
    /\ \E id \in BookingIds, booking \in Drafts : update_booking(id, booking)

DeleteBooking ==
    /\ last = Idle
    /\ \E id \in BookingIds : delete_booking(id)

CheckTable ==
    /\ last = Idle
    /\ \E t \in TableIds, d \in Dates, s \in Times, e \in Times,
          x \in BookingIds \cup {None} :
            s < e /\ CheckAvailability(t, d, s, e, x)

UpdateTable ==
    /\ last = Idle
    /\ \E t \in TableIds, a \in BOOLEAN : update_table(t, a)

DeleteTable ==
    /\ last = Idle
    /\ \E t \in TableIds : delete_table(t)

\* the caller has taken the result of its call
Return ==
    /\ last # Idle
    /\ last' = Idle
    /\ failed' = {}
    /\ UNCHANGED <<users, tables, bookings, nextId, calls, ops>>

Next ==
    \/ CreateBooking
    \/ UpdateBooking
    \/ DeleteBooking
    \/ CheckTable
    \/ UpdateTable
    \/ DeleteTable
    \/ Return

Spec == Init /\ [][Next]_vars

\* -------------------------------------- create_booking, access by access
\* Each access of create_booking to the store (read_table, read_bookings,
\* the INSERT) is a transaction of its own (get_cursor commits after each
\* statement), so concurrent calls interleave between the accesses.

\* the drafts of the concurrent requests: confirmed bookings of table 1
ConcDrafts == {d \in Drafts : d.table_id = 1 /\ d.status = "confirmed"}

\* CreateBegin going on to the checker whatever the end time is
CreateBegin_no_end_test(p, booking) ==
    /\ calls[p].pc = "idle"
    /\ calls' = [calls EXCEPT ![p] =
                    InFlight("read_table", booking, NoResult, None)]
    /\ UNCHANGED <<users, tables, bookings, nextId, last, failed, ops>>

\* create_booking is called: the end time is looked at before any access
CreateBegin(p, booking) ==
    /\ calls[p].pc = "idle"
    /\ calls' = [calls EXCEPT ![p] =
                    IF booking.booking_end_time = None
                    THEN InFlight("done", booking, NoResult, None)
                    ELSE InFlight("read_table", booking, NoResult, None)]
    /\ UNCHANGED <<users, tables, bookings, nextId, last, failed, ops>>

\* check_table_availability: read_table and the tests on the table
CreateReadTable(p) ==
    /\ calls[p].pc = "read_table"
    /\ LET result == TableResult(read_table(calls[p].booking.table_id)) IN
       calls' = [calls EXCEPT ![p] =
                    IF ~result.table_active
                    THEN InFlight("done", calls[p].booking, result, None)
                    ELSE InFlight("read_bookings", calls[p].booking, result,
                                  None)]
    /\ UNCHANGED <<users, tables, bookings, nextId, last, failed, ops>>

\* check_table_availability: read_bookings and the loop over the rows
CreateReadBookings(p) ==
    /\ calls[p].pc = "read_bookings"
    /\ LET booking == calls[p].booking IN
       \E result \in BookingResults(calls[p].avail,
                        read_bookings(booking.table_id, booking.booking_date),
                        booking.booking_time, booking.booking_end_time, None) :
          calls' = [calls EXCEPT ![p] =
                       IF ~result.available
                       THEN InFlight("done", booking, result, None)
                       ELSE InFlight("insert", booking, result, None)]
    /\ UNCHANGED <<users, tables, bookings, nextId, last, failed, ops>>

\* driver.create: the INSERT, which the constraints may refuse
CreateInsert(p) ==
    /\ calls[p].pc = "insert"
    /\ LET booking == calls[p].booking IN
       IF RowAccepted(to_dict(booking))
       THEN /\ Insert(to_dict(booking))
            /\ calls' = [calls EXCEPT ![p] =
                            InFlight("done", booking, calls[p].avail, nextId)]
       ELSE /\ calls' = [calls EXCEPT ![p] =
                            InFlight("done", booking, calls[p].avail, None)]
            /\ UNCHANGED <<bookings, nextId>>
    /\ UNCHANGED <<users, tables, last, failed, ops>>

Begin == \E p \in Procs, booking \in ConcDrafts : CreateBegin(p, booking)
ReadTable == \E p \in Procs : CreateReadTable(p)
ReadBookings == \E p \in Procs : CreateReadBookings(p)
InsertRow == \E p \in Procs : CreateInsert(p)

\* Each request flow makes one create_booking call, while the caller of the
\* table operations goes on.
NextConc ==
    \/ Begin
    \/ ReadTable
    \/ ReadBookings
    \/ InsertRow
    \/ UpdateTable
    \/ DeleteTable
    \/ Return

SpecConc == Init /\ [][NextConc]_vars

\* ------------------------------------------- the calls on a failing store
\* The store may raise an error on any access (the connection is lost, the
\* server refuses the statement).  `errors` is the set of accesses of a call
\* the store raises on; `failed` records those the call actually made.

Accesses == {"read_table", "read_bookings", "write"}

\* read_table: an exception of the driver is caught and None is returned
read_table_store(table_id, errors) ==
    IF "read_table" \in errors THEN << >> ELSE read_table(table_id)

\* read_bookings: an exception of the driver is caught and [] is returned
read_bookings_store(table_id, booking_date, errors) ==
    IF "read_bookings" \in errors THEN {}
    ELSE read_bookings(table_id, booking_date)

\* the accesses a call has made when the checker ended with result, the
\* write being made when the checker answered available
Attempted(result) ==
    {"read_table"}
    \cup (IF result.table_active THEN {"read_bookings"} ELSE {})
    \cup (IF result.available THEN {"write"} ELSE {})

\* check_table_availability over read_table and read_bookings as they
\* answer on a failing store
check_table_availability_store(table_id, booking_date, booking_time, booking_end_time, exclude_booking_id, errors) ==
    LET result == TableResult(read_table_store(table_id, errors)) IN
    IF ~result.table_active THEN {result}
    ELSE BookingResults(result,
                        read_bookings_store(table_id, booking_date, errors),
                        booking_time, booking_end_time, exclude_booking_id)

\* create_booking(booking, driver): an exception of driver.create (an error
\* of the store or a constraint the row does not meet) is caught and None
\* is returned; get_cursor has rolled the statement back.
create_booking_store(booking, errors) ==
    /\ nextId <= MaxBookingId
    /\ IF booking.booking_end_time = None
       THEN /\ last' = Called("create_booking", None, booking, None, FALSE,
                              FALSE, NoResult)
            /\ failed' = {}
            /\ UNCHANGED <<bookings, nextId>>
       ELSE \E availability_result \in
                check_table_availability_store(booking.table_id,
                    booking.booking_date, booking.booking_time,
                    booking.booking_end_time, None, errors) :
              /\ failed' = errors \cap Attempted(availability_result)
              /\ IF ~availability_result.available
                 THEN /\ last' = Called("create_booking", None, booking,
                                        None, FALSE, TRUE,
                                        availability_result)
                      /\ UNCHANGED <<bookings, nextId>>
                 ELSE IF "write" \notin errors /\ RowAccepted(to_dict(booking))
                 THEN /\ Insert(to_dict(booking))
                      /\ last' = Called("create_booking", None, booking,
                                        nextId, TRUE, TRUE,
                                        availability_result)
                 ELSE /\ last' = Called("create_booking", None, booking,
                                        None, FALSE, TRUE,
                                        availability_result)
                      /\ UNCHANGED <<bookings, nextId>>
    /\ UNCHANGED <<users, tables, calls, ops>>

\* update_booking_store with a statement that is not rolled back when it
\* fails: the status column stays written
update_booking_store_no_rollback(booking_id, booking, errors) ==
    /\ failed' = errors \cap {"write"}
    /\ IF booking_id \notin DOMAIN bookings
       THEN /\ last' = Called("update_booking", booking_id, booking, None,
                              FALSE, FALSE, NoResult)
            /\ UNCHANGED bookings
       ELSE IF "write" \notin errors /\ RowAccepted(to_dict(booking))
       THEN /\ bookings' = [bookings EXCEPT ![booking_id] = to_dict(booking)]
            /\ last' = Called("update_booking", booking_id, booking, None,
                              TRUE, FALSE, NoResult)
       ELSE /\ bookings' = [bookings EXCEPT
                               ![booking_id].status = booking.status]
            /\ last' = Called("update_booking", booking_id, booking, None,
                              FALSE, FALSE, NoResult)
    /\ UNCHANGED <<users, tables, nextId, calls, ops>>

\* update_booking(booking_id, booking, driver): an exception of
\* driver.update_by_id is caught and False is returned
update_booking_store(booking_id, booking, errors) ==
    /\ failed' = errors \cap {"write"}
    /\ IF /\ "write" \notin errors
          /\ booking_id \in DOMAIN bookings
          /\ RowAccepted(to_dict(booking))
       THEN /\ bookings' = [bookings EXCEPT ![booking_id] = to_dict(booking)]
            /\ last' = Called("update_booking", booking_id, booking, None,
                              TRUE, FALSE, NoResult)
       ELSE /\ last' = Called("update_booking", booking_id, booking, None,
                              FALSE, FALSE, NoResult)
            /\ UNCHANGED bookings
    /\ UNCHANGED <<users, tables, nextId, calls, ops>>

\* delete_booking(booking_id, driver): an exception of driver.delete_by_id
\* is caught and False is returned
delete_booking_store(booking_id, errors) ==
    /\ failed' = errors \cap {"write"}
    /\ IF "write" \notin errors /\ booking_id \in DOMAIN bookings
       THEN /\ bookings' = [i \in DOMAIN bookings \ {booking_id} |-> bookings[i]]
            /\ last' = Called("delete_booking", booking_id, NoDraft, None,
                              TRUE, FALSE, NoResult)
       ELSE /\ last' = Called("delete_booking", booking_id, NoDraft, None,
                              FALSE, FALSE, NoResult)
            /\ UNCHANGED bookings
    /\ UNCHANGED <<users, tables, nextId, calls, ops>>

\* a call of check_table_availability by the caller on a failing store
CheckAvailabilityStore(table_id, booking_date, booking_time, booking_end_time, errors) ==
    /\ \E result \in check_table_availability_store(table_id, booking_date,
                        booking_time, booking_end_time, None, errors) :
          /\ failed' = errors \cap (Attempted(result) \ {"write"})
          /\ last' = Called("check_table_availability", None,
                            Candidate(table_id, booking_date, booking_time,
                                      booking_end_time),
                            None, result.available, TRUE, result)
    /\ UNCHANGED <<users, tables, bookings, nextId, calls, ops>>

\* the drafts of the caller on the failing store
StoreDrafts == {d \in Drafts : d.status \in {"confirmed", "cancelled"}}

CreateBookingStore ==
    /\ last = Idle
    /\ \E booking \in StoreDrafts, errors \in SUBSET Accesses :
          create_booking_store(booking, errors)

UpdateBookingStore ==
    /\ last = Idle
    /\ \E id \in BookingIds, booking \in StoreDrafts,
          errors \in SUBSET {"write"} :
            update_booking_store(id, booking, errors)

DeleteBookingStore ==
    /\ last = Idle
    /\ \E id \in BookingIds, errors \in SUBSET {"write"} :
          delete_booking_store(id, errors)

CheckTableStore ==
    /\ last = Idle
    /\ \E t \in TableIds, d \in DraftDates, s \in DraftTimes, e \in DraftTimes,
          errors \in SUBSET {"read_table", "read_bookings"} :
            s < e /\ CheckAvailabilityStore(t, d, s, e, errors)

NextStore ==
    \/ CreateBookingStore
    \/ UpdateBookingStore
    \/ DeleteBookingStore
    \/ CheckTableStore
    \/ UpdateTable
    \/ DeleteTable
    \/ Return

SpecStore == Init /\ [][NextStore]_vars

\* ------------------------------------------- the checker over any store
\* The checker is a function of the store and its arguments: this
\* specification starts from any store the schema allows (rows of any
\* table, date, interval and status, each of a stored table) and applies it
\* once to any arguments.

StoredRows ==
    {r \in [user_id : UserIds,
            table_id : TableIds,
            booking_date : Dates,
            booking_time : Times,
            booking_end_time : Times,
            number_of_guests : {1},
            status : Statuses] : r.booking_end_time > r.booking_time}

InitCheck ==
    /\ users = UserIds
    /\ \E S \in SUBSET TableIds :
          tables \in [S -> [is_active : BOOLEAN, status : {"available"}]]
    /\ \E n \in 0..MaxBookingId : bookings \in [1..n -> StoredRows]
    /\ \A i \in DOMAIN bookings : bookings[i].table_id \in DOMAIN tables
    /\ nextId = MaxBookingId + 1
    /\ last = Idle
    /\ calls = [p \in Procs |-> NoCall]
    /\ failed = {}
    /\ ops = [p \in Procs |-> NoOp]

NextCheck == CheckTable

SpecCheck == InitCheck /\ [][NextCheck]_vars

\* ------------------------------ the operations with a connection of their own
\* read_users, read_tables and read_bookings called without a driver, and
\* create_all_tables, make a PostgreSQLDriver and connect it; this
\* specification follows each of them from the call to its exit, with
\* connect and every query either succeeding or raising.

ReadOps == {"read_users", "read_tables", "read_bookings"}
\* models = [User, RestaurantTable, Booking]
ModelCount == 3

\* the operation is called with driver = None
OpCall(p, op) ==
    /\ ops[p].pc = "idle"
    /\ ops' = [ops EXCEPT ![p] = Op(op, "connect", "none", 0, "none")]
    /\ UNCHANGED <<users, tables, bookings, nextId, last, calls, failed>>

\* driver.connect(): in read_* it stands before the try, so its
\* ConnectionError leaves the function; in create_all_tables it stands
\* inside the try, so the error is caught and False is returned.
OpConnect(p) ==
    /\ ops[p].pc = "connect"
    /\ \E connected \in BOOLEAN :
          ops' = [ops EXCEPT ![p] =
                     IF connected
                     THEN Op(ops[p].op, "query", "open", 0, "none")
                     ELSE IF ops[p].op \in ReadOps
                     THEN Op(ops[p].op, "raised", "none", 0, "none")
                     ELSE Op(ops[p].op, "finally", "none", 0, "False")]
    /\ UNCHANGED <<users, tables, bookings, nextId, last, calls, failed>>

\* the try block: driver.read of a read_* function (an exception is caught
\* and [] returned), or driver.create_table_from_model for the next model of
\* create_all_tables (an exception is re-raised, caught, False returned)
OpQuery(p) ==
    /\ ops[p].pc = "query"
    /\ \E succeeded \in BOOLEAN :
          ops' = [ops EXCEPT ![p] =
                     IF ops[p].op \in ReadOps
                     THEN Op(ops[p].op, "finally", ops[p].connection, 0,
                             IF succeeded THEN "rows" ELSE "empty")
                     ELSE IF ~succeeded
                     THEN Op(ops[p].op, "finally", ops[p].connection,
                             ops[p].models_done, "False")
                     ELSE IF ops[p].models_done + 1 = ModelCount
                     THEN Op(ops[p].op, "finally", ops[p].connection,
                             ModelCount, "True")
                     ELSE Op(ops[p].op, "query", ops[p].connection,
                             ops[p].models_done + 1, "none")]
    /\ UNCHANGED <<users, tables, bookings, nextId, last, calls, failed>>

\* a finally block that disconnects only after a query that succeeded
OpFinally_after_success(p) ==
    /\ ops[p].pc = "finally"
    /\ ops' = [ops EXCEPT ![p] =
                  Op(ops[p].op, "returned",
                     IF ops[p].connection = "open"
                        /\ ops[p].result \in {"rows", "True"}
                     THEN "closed" ELSE ops[p].connection,
                     ops[p].models_done, ops[p].result)]
    /\ UNCHANGED <<users, tables, bookings, nextId, last, calls, failed>>

\* the finally block: driver.disconnect(), which closes the connection if
\* there is one, and the function returns
OpFinally(p) ==
    /\ ops[p].pc = "finally"
    /\ ops' = [ops EXCEPT ![p] =
                  Op(ops[p].op, "returned",
                     IF ops[p].connection = "open" THEN "closed"
                     ELSE ops[p].connection,
                     ops[p].models_done, ops[p].result)]
    /\ UNCHANGED <<users, tables, bookings, nextId, last, calls, failed>>

\* the caller goes on after the return or the exception
OpDone(p) ==
    /\ ops[p].pc \in {"returned", "raised"}
    /\ ops' = [ops EXCEPT ![p] = NoOp]
    /\ UNCHANGED <<users, tables, bookings, nextId, last, calls, failed>>

OpNames == ReadOps \cup {"create_all_tables"}

CallOp == \E p \in Procs, op \in OpNames : OpCall(p, op)
Connect == \E p \in Procs : OpConnect(p)
Query == \E p \in Procs : OpQuery(p)
Finally == \E p \in Procs : OpFinally(p)
Done == \E p \in Procs : OpDone(p)

NextOps ==
    \/ CallOp
    \/ Connect
    \/ Query
    \/ Finally
    \/ Done

SpecOps == Init /\ [][NextOps]_vars

\* ------------------------------------------ users, tables and their bookings
\* The foreign keys of bookings: ON DELETE CASCADE to users, ON DELETE
\* RESTRICT to restaurant_tables.  This specification has two users, who
\* book, change and lose bookings while users and tables are deleted.

RefUserIds == {1, 2}

\* delete_user leaving the bookings of the user in the store
delete_user_no_cascade(user_id) ==
    /\ IF user_id \in users
       THEN /\ users' = users \ {user_id}
            /\ last' = Called("delete_user", user_id, NoDraft, None, TRUE,
                              FALSE, NoResult)
       ELSE /\ last' = Called("delete_user", user_id, NoDraft, None, FALSE,
                              FALSE, NoResult)
            /\ UNCHANGED users
    /\ UNCHANGED <<tables, bookings, nextId, calls, failed, ops>>

\* delete_user(user_id, driver): DELETE FROM users WHERE id = user_id, which
\* takes the user's bookings with it
delete_user(user_id) ==
    /\ IF user_id \in users
       THEN /\ users' = users \ {user_id}
            /\ bookings' = [i \in {j \in DOMAIN bookings :
                                      bookings[j].user_id # user_id} |->
                               bookings[i]]
            /\ last' = Called("delete_user", user_id, NoDraft, None, TRUE,
                              FALSE, NoResult)
       ELSE /\ last' = Called("delete_user", user_id, NoDraft, None, FALSE,
                              FALSE, NoResult)
            /\ UNCHANGED <<users, bookings>>
    /\ UNCHANGED <<tables, nextId, calls, failed, ops>>

\* the drafts of the two users
RefDrafts ==
    [user_id : RefUserIds,
     table_id : TableIds,
     booking_date : DraftDates,
     booking_time : {21},
     booking_end_time : {22},
     number_of_guests : {1},
     status : {"confirmed", "cancelled"}]

InitRef ==
    /\ users = RefUserIds
    /\ tables = [t \in TableIds |->
                    [is_active |-> TRUE, status |-> "available"]]
    /\ bookings = << >>
    /\ nextId = 1
    /\ last = Idle
    /\ calls = [p \in Procs |-> NoCall]
    /\ failed = {}
    /\ ops = [p \in Procs |-> NoOp]

CreateBookingRef ==
    /\ last = Idle
    /\ \E booking \in RefDrafts : create_booking(booking)

UpdateBookingRef ==
    /\ last = Idle
    /\ \E id \in BookingIds, booking \in RefDrafts : update_booking(id, booking)

DeleteUser ==
    /\ last = Idle
    /\ \E u \in RefUserIds : delete_user(u)

NextRef ==
    \/ CreateBookingRef
    \/ UpdateBookingRef
    \/ DeleteBooking
    \/ DeleteUser
    \/ DeleteTable
    \/ Return

SpecRef == InitRef /\ [][NextRef]_vars

\* ------------------------------------------ the checker over legacy rows
\* A bookings table created before booking_end_time was a column keeps rows
\* without an end time (CREATE TABLE IF NOT EXISTS leaves it as it is);
\* the checker gives them a duration of 2 hours.  This specification starts
\* from any store with such rows and applies the checker once.

LegacyRows ==
    {r \in [user_id : UserIds,
            table_id : TableIds,
            booking_date : DraftDates,
            booking_time : Times,
            booking_end_time : Times \cup {None},
            number_of_guests : {1},
            status : {"confirmed", "cancelled"}] :
        r.booking_end_time = None \/ r.booking_end_time > r.booking_time}

InitLegacy ==
    /\ users = UserIds
    /\ tables = [t \in TableIds |->
                    [is_active |-> TRUE, status |-> "available"]]
    /\ \E n \in 0..MaxBookingId : bookings \in [1..n -> LegacyRows]
    /\ nextId = MaxBookingId + 1
    /\ last = Idle
    /\ calls = [p \in Procs |-> NoCall]
    /\ failed = {}
    /\ ops = [p \in Procs |-> NoOp]

NextLegacy == CheckTable

SpecLegacy == InitLegacy /\ [][NextLegacy]_vars

\* ----------------------------------- the checker with an exception inside
\* check_table_availability catches every exception raised in its body and
\* returns the result as it stands.  read_table and read_bookings catch
\* their own; what raises is datetime.combine(booking_date, booking_time)
\* for a time that is None, after the table was found active and the
\* bookings were read.

check_table_availability_raising(table_id, booking_date, booking_time, booking_end_time, exclude_booking_id, errors) ==
    LET result == TableResult(read_table_store(table_id, errors)) IN
    IF ~result.table_active THEN {result}
    ELSE IF booking_time = None \/ booking_end_time = None THEN {result}
    ELSE BookingResults(result,
                        read_bookings_store(table_id, booking_date, errors),
                        booking_time, booking_end_time, exclude_booking_id)

CheckAvailabilityRaising(table_id, booking_date, booking_time, booking_end_time, exclude_booking_id, errors) ==
    /\ \E result \in check_table_availability_raising(table_id,
                        booking_date, booking_time, booking_end_time,
                        exclude_booking_id, errors) :
          /\ failed' = errors \cap (Attempted(result) \ {"write"})
          /\ last' = Called("check_table_availability", exclude_booking_id,
                            Candidate(table_id, booking_date, booking_time,
                                      booking_end_time),
                            None, result.available, TRUE, result)
    /\ UNCHANGED <<users, tables, bookings, nextId, calls, ops>>

CheckTableRaising ==
    /\ last = Idle
    /\ \E t \in TableIds, d \in DraftDates, s \in Times \cup {None},
          e \in Times \cup {None}, x \in {None, 1},
          errors \in SUBSET {"read_table", "read_bookings"} :
            CheckAvailabilityRaising(t, d, s, e, x, errors)

\* any tables and any rows, with or without end time
InitShape ==
    /\ users = UserIds
    /\ \E S \in SUBSET TableIds :
          tables \in [S -> [is_active : BOOLEAN, status : {"available"}]]
    /\ \E n \in 0..MaxBookingId : bookings \in [1..n -> LegacyRows]
    /\ \A i \in DOMAIN bookings : bookings[i].table_id \in DOMAIN tables
    /\ nextId = MaxBookingId + 1
    /\ last = Idle
    /\ calls = [p \in Procs |-> NoCall]
    /\ failed = {}
    /\ ops = [p \in Procs |-> NoOp]

NextShape == CheckTableRaising

SpecShape == InitShape /\ [][NextShape]_vars

\* ------------------------------------------- create_booking over any store
\* create_booking as a function of the store and the draft: this
\* specification starts from any tables (stored or not, active or not, of
\* any status) with any booking the schema allows, and calls it once.

\* the rows found in the store when create_booking is called
CreateRows == {r \in StoredRows : r.booking_date \in DraftDates}

InitCreate ==
    /\ users = UserIds
    /\ \E S \in SUBSET TableIds :
          tables \in [S -> [is_active : BOOLEAN, status : TableStatuses]]
    /\ \E n \in 0..(MaxBookingId - 1) : bookings \in [1..n -> CreateRows]
    /\ \A i \in DOMAIN bookings : bookings[i].table_id \in DOMAIN tables
    /\ nextId = MaxBookingId
    /\ last = Idle
    /\ calls = [p \in Procs |-> NoCall]
    /\ failed = {}
    /\ ops = [p \in Procs |-> NoOp]

NextCreate == CreateBooking

SpecCreate == InitCreate /\ [][NextCreate]_vars

\* ------------------------------------------- update_booking, every column
\* update_booking with the timestamps of the row: Booking.to_dict carries
\* created_at and updated_at of the Booking object it is called on, and
\* update_booking sets updated_at to datetime.now() before the UPDATE.
\* This specification starts from any store of rows with timestamps and
\* applies update_booking once.  A timestamp is a tick of the clock, or
\* None.

Stamps == {None, 1, 2}

\* Booking.to_dict, with created_at and updated_at
to_dict_timestamps(b) ==
    [user_id |-> b.user_id,
     table_id |-> b.table_id,
     booking_date |-> b.booking_date,
     booking_time |-> b.booking_time,
     booking_end_time |->
        IF b.booking_end_time # None THEN b.booking_end_time
        ELSE (b.booking_time + DefaultDuration) % HoursPerDay,
     number_of_guests |-> b.number_of_guests,
     status |-> b.status,
     created_at |-> b.created_at,
     updated_at |-> b.updated_at]

\* datetime.now(): later than every timestamp in the store
Now ==
    LET stored == {bookings[i].created_at : i \in DOMAIN bookings}
                  \cup {bookings[i].updated_at : i \in DOMAIN bookings}
                  \cup {0}
    IN 1 + CHOOSE t \in stored : \A u \in stored : u <= t

\* update_booking(booking_id, booking, driver), every column of the UPDATE
update_booking_timestamps(booking_id, booking) ==
    /\ LET booking_data == [to_dict_timestamps(booking) EXCEPT
                               !.updated_at = Now]
       IN IF booking_id \in DOMAIN bookings /\ RowAccepted(booking_data)
          THEN /\ bookings' = [bookings EXCEPT ![booking_id] = booking_data]
               /\ last' = Called("update_booking", booking_id, booking,
                                 None, TRUE, FALSE, NoResult)
          ELSE /\ last' = Called("update_booking", booking_id, booking,
                                 None, FALSE, FALSE, NoResult)
               /\ UNCHANGED bookings
    /\ UNCHANGED <<users, tables, nextId, calls, failed, ops>>

\* the drafts: as the form builds them (no timestamps) or as read from the
\* store and changed
StampDrafts ==
    [user_id : UserIds,
     table_id : {1},
     booking_date : DraftDates,
     booking_time : {21},
     booking_end_time : {22, 23},
     number_of_guests : {0, 1},
     status : {"confirmed", "cancelled"},
     created_at : Stamps,
     updated_at : {None, 1}]

StampedRows ==
    [user_id : UserIds,
     table_id : {1},
     booking_date : DraftDates,
     booking_time : {21},
     booking_end_time : {22},
     number_of_guests : {1},
     status : {"confirmed", "cancelled"},
     created_at : Stamps,
     updated_at : Stamps]

InitStamp ==
    /\ users = UserIds
    /\ tables = [t \in TableIds |->
                    [is_active |-> TRUE, status |-> "available"]]
    /\ \E n \in 0..MaxBookingId : bookings \in [1..n -> StampedRows]
    /\ nextId = MaxBookingId + 1
    /\ last = Idle
    /\ calls = [p \in Procs |-> NoCall]
    /\ failed = {}
    /\ ops = [p \in Procs |-> NoOp]

UpdateBookingStamp ==
    /\ last = Idle
    /\ \E id \in BookingIds, booking \in StampDrafts :
          update_booking_timestamps(id, booking)

NextStamp == UpdateBookingStamp

SpecStamp == InitStamp /\ [][NextStamp]_vars

\* ============================================================ the claims

ActiveStatuses == {"pending", "confirmed"}

\* the hours of the half-open interval [start, end_)
Hours(start, end_) == {h \in 0..(HoursPerDay - 1) : start <= h /\ h < end_}

\* two half-open intervals share an hour
Intersect(s1, e1, s2, e2) == Hours(s1, e1) \cap Hours(s2, e2) # {}

\* C1: after any sequence of create_booking, update_booking and
\* delete_booking calls from an empty store, no two stored bookings of the
\* same table and date whose status is pending or confirmed have
\* overlapping intervals [booking_time, booking_end_time).
C1_NoDoubleBooking ==
    \A i, j \in DOMAIN bookings :
        /\ i # j
        /\ bookings[i].table_id = bookings[j].table_id
        /\ bookings[i].booking_date = bookings[j].booking_date
        /\ bookings[i].status \in ActiveStatuses
        /\ bookings[j].status \in ActiveStatuses
        => ~Intersect(bookings[i].booking_time, bookings[i].booking_end_time,
                      bookings[j].booking_time, bookings[j].booking_end_time)

\* ---- the call the caller is in, as the claims speak of it

IsCheck == last.op = "check_table_availability"
IsCreate == last.op = "create_booking"
IsUpdate == last.op = "update_booking"
IsDelete == last.op = "delete_booking"

\* the table named by the call is stored and active
TableStoredActive(d) ==
    d.table_id \in DOMAIN tables /\ tables[d.table_id].is_active

\* stored booking i is of the table and date of draft d
SameTableDate(i, d) ==
    /\ bookings[i].table_id = d.table_id
    /\ bookings[i].booking_date = d.booking_date

\* the interval of draft d shares an hour with that of stored booking i
IntersectsRow(d, i) ==
    Intersect(d.booking_time, d.booking_end_time,
              bookings[i].booking_time, bookings[i].booking_end_time)

\* a draft the schema's constraints accept: end after start, a guest, a
\* stored user
WellFormed(d) ==
    /\ d.booking_end_time # None
    /\ d.booking_time < d.booking_end_time
    /\ d.number_of_guests > 0
    /\ d.user_id \in users

\* C3: update_booking(id, draft) is rejected (returns False) when the
\* draft's table, date and interval overlap a pending/confirmed booking
\* other than id, or the draft's table is missing or inactive.
C3_UpdateGated ==
    (/\ IsUpdate
     /\ last.draft.booking_end_time # None
     /\ \/ ~TableStoredActive(last.draft)
        \/ \E i \in DOMAIN bookings \ {last.id} :
              /\ SameTableDate(i, last.draft)
              /\ bookings[i].status \in ActiveStatuses
              /\ IntersectsRow(last.draft, i))
    => last.ok = FALSE

\* C4: updating booking R to a well-formed draft whose window overlaps R's
\* own stored window, and no other pending/confirmed booking of that table
\* and date, is not rejected and stores the draft; and the checker called
\* with exclude_booking_id = R for an active table answers available when no
\* pending/confirmed booking other than R overlaps the candidate.
C4_UpdateStep ==
    (/\ last'.op = "update_booking"
     /\ last'.id \in DOMAIN bookings
     /\ WellFormed(last'.draft)
     /\ last'.draft.table_id \in DOMAIN tables
     /\ SameTableDate(last'.id, last'.draft)
     /\ IntersectsRow(last'.draft, last'.id)
     /\ \A i \in DOMAIN bookings \ {last'.id} :
            SameTableDate(i, last'.draft)
            /\ bookings[i].status \in ActiveStatuses
            => ~IntersectsRow(last'.draft, i))
    => /\ last'.ok = TRUE
       /\ bookings' = [bookings EXCEPT ![last'.id] = to_dict(last'.draft)]

C4_CheckStep ==
    (/\ last'.op = "check_table_availability"
     /\ last'.id \in DOMAIN bookings
     /\ TableStoredActive(last'.draft)
     /\ \A i \in DOMAIN bookings \ {last'.id} :
            SameTableDate(i, last'.draft)
            /\ bookings[i].status \in ActiveStatuses
            => ~IntersectsRow(last'.draft, i))
    => last'.avail.available = TRUE

C4_SelfExclusion == [][C4_UpdateStep /\ C4_CheckStep]_vars

\* the checker was called with exclude_booking_id = R, R pending or
\* confirmed on the candidate's table and date and overlapping it, and
\* answered available
C4_Witness ==
    /\ IsCheck
    /\ last.id \in DOMAIN bookings
    /\ SameTableDate(last.id, last.draft)
    /\ bookings[last.id].status \in ActiveStatuses
    /\ IntersectsRow(last.draft, last.id)
    /\ last.avail.available = TRUE

\* C5: for a stored active table, when every pending/confirmed booking of
\* the table and date is disjoint from the candidate or ends exactly where
\* it starts or starts exactly where it ends, the checker answers
\* available = true.
C5_Adjacency ==
    (/\ IsCheck
     /\ TableStoredActive(last.draft)
     /\ \A i \in DOMAIN bookings :
            SameTableDate(i, last.draft)
            /\ bookings[i].status \in ActiveStatuses
            => \/ bookings[i].booking_end_time <= last.draft.booking_time
               \/ last.draft.booking_end_time <= bookings[i].booking_time)
    => last.avail.available = TRUE

\* the candidate starts where one pending/confirmed booking of the table
\* and date ends and ends where another starts, and the answer is available
C5_Witness ==
    /\ IsCheck
    /\ last.avail.available = TRUE
    /\ \E i, j \in DOMAIN bookings :
          /\ SameTableDate(i, last.draft)
          /\ SameTableDate(j, last.draft)
          /\ bookings[i].status \in ActiveStatuses
          /\ bookings[j].status \in ActiveStatuses
          /\ bookings[i].booking_end_time = last.draft.booking_time
          /\ bookings[j].booking_time = last.draft.booking_end_time

\* C6: for a stored active table and a candidate with start < end, when a
\* pending/confirmed booking E of the table and date, other than
\* exclude_booking_id, has candidate.start < E.end and candidate.end >
\* E.start, the checker answers available = false with a conflicting_booking.
C6_OverlapDetected ==
    (/\ IsCheck
     /\ TableStoredActive(last.draft)
     /\ last.draft.booking_time < last.draft.booking_end_time
     /\ \E i \in DOMAIN bookings \ {last.id} :
            /\ SameTableDate(i, last.draft)
            /\ bookings[i].status \in ActiveStatuses
            /\ last.draft.booking_time < bookings[i].booking_end_time
            /\ last.draft.booking_end_time > bookings[i].booking_time)
    => /\ last.avail.available = FALSE
       /\ last.avail.conflicting_booking # None

\* the checker reported a booking that starts before the candidate and ends
\* inside it (a partial overlap)
C6_Witness ==
    /\ IsCheck
    /\ last.avail.conflicting_booking \in DOMAIN bookings
    /\ LET E == bookings[last.avail.conflicting_booking] IN
          /\ E.booking_time < last.draft.booking_time
          /\ last.draft.booking_time < E.booking_end_time
          /\ E.booking_end_time < last.draft.booking_end_time

\* C7: for a stored active table, when every stored booking of the table
\* and date that overlaps the candidate is cancelled or completed, the
\* checker answers available = true, and create_booking stores a well-formed
\* draft and returns its id.
C7_TerminalNeverBlocks ==
    /\ (/\ IsCheck
        /\ TableStoredActive(last.draft)
        /\ \A i \in DOMAIN bookings :
               SameTableDate(i, last.draft) /\ IntersectsRow(last.draft, i)
               => bookings[i].status \in {"cancelled", "completed"})
       => last.avail.available = TRUE
    /\ (/\ IsCreate
        /\ WellFormed(last.draft)
        /\ TableStoredActive(last.draft)
        /\ \A i \in DOMAIN bookings \ {last.ret} :
               SameTableDate(i, last.draft) /\ IntersectsRow(last.draft, i)
               => bookings[i].status \in {"cancelled", "completed"})
       => /\ last.ret \in DOMAIN bookings
          /\ bookings[last.ret] = to_dict(last.draft)

\* create_booking stored a pending/confirmed draft over the interval of a
\* cancelled or completed booking of the same table and date
C7_Witness ==
    /\ IsCreate
    /\ last.ret \in DOMAIN bookings
    /\ last.draft.status \in ActiveStatuses
    /\ \E i \in DOMAIN bookings \ {last.ret} :
          /\ SameTableDate(i, last.draft)
          /\ IntersectsRow(last.draft, i)
          /\ bookings[i].status \in {"cancelled", "completed"}

\* C8: for a stored table whose is_active is false, whatever the date, the
\* interval and the stored bookings, the checker answers table_exists =
\* true, table_active = false, available = false, no conflicting_booking.
C8_InactiveTable ==
    (/\ IsCheck
     /\ last.draft.table_id \in DOMAIN tables
     /\ ~tables[last.draft.table_id].is_active)
    => last.avail = [available |-> FALSE, table_exists |-> TRUE,
                     table_active |-> FALSE, conflicting_booking |-> None]

\* the checker was called for an inactive table, on a date on which the
\* table has a pending/confirmed booking over the candidate's interval
C8_Witness ==
    /\ IsCheck
    /\ last.checked
    /\ last.draft.table_id \in DOMAIN tables
    /\ ~tables[last.draft.table_id].is_active
    /\ \E i \in DOMAIN bookings :
          /\ SameTableDate(i, last.draft)
          /\ bookings[i].status \in ActiveStatuses
          /\ IntersectsRow(last.draft, i)

\* C9: for a table id that is not in the store, the checker answers
\* table_exists = false, table_active = false, available = false, no
\* conflicting_booking.
C9_MissingTable ==
    (IsCheck /\ last.draft.table_id \notin DOMAIN tables)
    => last.avail = [available |-> FALSE, table_exists |-> FALSE,
                     table_active |-> FALSE, conflicting_booking |-> None]

\* the checker was called, and answered, for a table id that is not stored
\* while another table has a booking on the date
C9_Witness ==
    /\ IsCheck
    /\ last.checked
    /\ last.draft.table_id \notin DOMAIN tables
    /\ \E i \in DOMAIN bookings :
          bookings[i].booking_date = last.draft.booking_date

\* C10: delete_booking of a stored id removes that row and returns True;
\* delete_booking of an id that is not stored (as after a first delete of
\* it) returns False and leaves the store as it was; and an id that was
\* handed out and is gone from the store never comes back, so the second of
\* two deletes of an id is of the second kind.
C10_DeleteStep ==
    last'.op = "delete_booking"
    => IF last'.id \in DOMAIN bookings
       THEN /\ last'.ok = TRUE
            /\ bookings' = [i \in DOMAIN bookings \ {last'.id} |-> bookings[i]]
       ELSE /\ last'.ok = FALSE
            /\ UNCHANGED <<users, tables, bookings, nextId, calls>>

C10_GoneStaysGone ==
    \A i \in BookingIds :
        i < nextId /\ i \notin DOMAIN bookings => i \notin DOMAIN bookings'

C10_DeleteTwice == [][C10_DeleteStep /\ C10_GoneStaysGone]_vars

\* delete_booking returned False for an id that had been handed out: the
\* row was deleted before
C10_Witness ==
    /\ IsDelete
    /\ last.ok = FALSE
    /\ last.id < nextId
    /\ last.id \notin DOMAIN bookings

\* C2: when concurrent create_booking calls of the same table and date have
\* pairwise-overlapping intervals, at most one of them inserts a booking and
\* returns an id.
C2_AtMostOneAdmitted ==
    \A p, q \in Procs :
        /\ p # q
        /\ calls[p].pc = "done"
        /\ calls[q].pc = "done"
        /\ calls[p].booking.table_id = calls[q].booking.table_id
        /\ calls[p].booking.booking_date = calls[q].booking.booking_date
        /\ calls[p].booking.booking_end_time # None
        /\ calls[q].booking.booking_end_time # None
        /\ Intersect(calls[p].booking.booking_time,
                     calls[p].booking.booking_end_time,
                     calls[q].booking.booking_time,
                     calls[q].booking.booking_end_time)
        => ~(calls[p].ret # None /\ calls[q].ret # None)

\* C11: the checker's overlap test is symmetric: for two pending/confirmed
\* stored bookings A and B of one table and date (each with start < end),
\* the checker's loop run with A's interval as the candidate (A itself
\* excluded) stops at B exactly when, run with B's interval as the
\* candidate (B excluded), it stops at A.
C11_OverlapSymmetric ==
    \A a, b \in DOMAIN bookings :
        /\ a # b
        /\ SameTableDate(a, bookings[b])
        /\ bookings[a].status \in ActiveStatuses
        /\ bookings[b].status \in ActiveStatuses
        => LET rows == read_bookings(bookings[a].table_id,
                                     bookings[a].booking_date)
           IN (b \in Conflicting(rows, bookings[a].booking_time,
                                 bookings[a].booking_end_time, a))
              <=> (a \in Conflicting(rows, bookings[b].booking_time,
                                     bookings[b].booking_end_time, b))

\* the checker was called with the interval of stored booking A as the
\* candidate and A excluded, and reported booking B, which starts inside
\* A's interval and ends after it
C11_Witness ==
    /\ IsCheck
    /\ last.id \in DOMAIN bookings
    /\ SameTableDate(last.id, last.draft)
    /\ bookings[last.id].booking_time = last.draft.booking_time
    /\ bookings[last.id].booking_end_time = last.draft.booking_end_time
    /\ last.avail.conflicting_booking \in DOMAIN bookings
    /\ LET B == bookings[last.avail.conflicting_booking] IN
          /\ last.draft.booking_time < B.booking_time
          /\ B.booking_time < last.draft.booking_end_time
          /\ last.draft.booking_end_time < B.booking_end_time

\* C12: a create_booking call whose draft has no end time is over at once:
\* it returns None with no availability result, having made no access to
\* the store (no read_table, no read_bookings, no INSERT), and users,
\* tables, bookings and the id sequence are as they were.
C12_NoEndTimeStep ==
    \A p \in Procs :
        (/\ calls[p].pc = "idle"
         /\ calls'[p].pc # "idle"
         /\ calls'[p].booking.booking_end_time = None)
        => /\ calls'[p] = InFlight("done", calls'[p].booking, NoResult, None)
           /\ UNCHANGED <<users, tables, bookings, nextId>>

C12_NoEndTime == [][C12_NoEndTimeStep]_vars

\* a call with a draft without end time, otherwise acceptable, for a stored
\* active table is done and returned None, and nothing is stored for it
C12_Witness ==
    \E p \in Procs :
        /\ calls[p].pc = "done"
        /\ calls[p].booking.booking_end_time = None
        /\ calls[p].booking.number_of_guests > 0
        /\ calls[p].booking.booking_time + DefaultDuration < HoursPerDay
        /\ TableStoredActive(calls[p].booking)
        /\ calls[p].ret = None
        /\ calls[p].avail = NoResult
        /\ \A i \in DOMAIN bookings :
              bookings[i].booking_time # calls[p].booking.booking_time

\* the draft of the create_booking call of this step has start < end, its
\* table is stored and active, and no pending/confirmed booking of that
\* table and date overlaps it (all in the store before the call)
C13_Admissible ==
    /\ last'.op = "create_booking"
    /\ last'.draft.booking_end_time # None
    /\ last'.draft.booking_time < last'.draft.booking_end_time
    /\ TableStoredActive(last'.draft)
    /\ \A i \in DOMAIN bookings :
           SameTableDate(i, last'.draft)
           /\ bookings[i].status \in ActiveStatuses
           => ~IntersectsRow(last'.draft, i)

\* the call of this step added exactly one row, which carries the draft's
\* user, table, date, start, end, guest count and status, under the id it
\* returned, an id no stored row had
C13_Persisted ==
    /\ last'.ret # None
    /\ last'.ret \notin DOMAIN bookings
    /\ DOMAIN bookings' = DOMAIN bookings \cup {last'.ret}
    /\ \A i \in DOMAIN bookings : bookings'[i] = bookings[i]
    /\ bookings'[last'.ret].user_id = last'.draft.user_id
    /\ bookings'[last'.ret].table_id = last'.draft.table_id
    /\ bookings'[last'.ret].booking_date = last'.draft.booking_date
    /\ bookings'[last'.ret].booking_time = last'.draft.booking_time
    /\ bookings'[last'.ret].booking_end_time = last'.draft.booking_end_time
    /\ bookings'[last'.ret].number_of_guests = last'.draft.number_of_guests
    /\ bookings'[last'.ret].status = last'.draft.status

\* C13 as stated: when the draft has start < end, its table exists and is
\* active and no pending/confirmed booking of that table and date overlaps
\* it, create_booking adds exactly one row carrying the draft's fields and
\* returns its generated id, different from every stored id.
C13_AsStated == [][C13_Admissible => C13_Persisted]_vars

\* C13 amended: the same, for a draft that also has a positive guest count
\* and a stored user.
C13_CreatePersists ==
    [][(/\ C13_Admissible
        /\ last'.draft.number_of_guests > 0
        /\ last'.draft.user_id \in users) => C13_Persisted]_vars

\* create_booking stored a pending/confirmed draft and returned its id,
\* with another pending/confirmed booking of the same table and date stored
C13_Witness ==
    /\ IsCreate
    /\ last.ret \in DOMAIN bookings
    /\ bookings[last.ret] = to_dict(last.draft)
    /\ last.draft.status \in ActiveStatuses
    /\ \E i \in DOMAIN bookings \ {last.ret} :
          /\ SameTableDate(i, last.draft)
          /\ bookings[i].status \in ActiveStatuses

\* C14: a create_booking or update_booking call either succeeds, and then
\* the whole row of the draft is stored (a new row under the returned id,
\* or the row of the updated id, every other row as it was), or it is
\* rejected (no end time, table missing or inactive, conflict, a constraint
\* the row does not meet, an error of the store), and then the bookings and
\* the id sequence are exactly as before the call.
C14_Step ==
    /\ last'.op = "create_booking"
       => IF last'.ret # None
          THEN /\ last'.ret \notin DOMAIN bookings
               /\ bookings' = [i \in DOMAIN bookings \cup {last'.ret} |->
                                  IF i = last'.ret THEN to_dict(last'.draft)
                                  ELSE bookings[i]]
          ELSE UNCHANGED <<bookings, nextId>>
    /\ last'.op = "update_booking"
       => IF last'.ok
          THEN /\ last'.id \in DOMAIN bookings
               /\ bookings' = [bookings EXCEPT
                                  ![last'.id] = to_dict(last'.draft)]
          ELSE UNCHANGED <<bookings, nextId>>

C14_AllOrNothing == [][C14_Step]_vars

\* update_booking of a stored booking failed on an error of the store, and
\* the stored row is not the draft's
C14_Witness ==
    /\ IsUpdate
    /\ last.id \in DOMAIN bookings
    /\ "write" \in failed
    /\ last.ok = FALSE
    /\ RowAccepted(to_dict(last.draft))
    /\ bookings[last.id].status # last.draft.status

\* a draft with an end time not after its start time, or without a guest
Malformed(d) ==
    \/ d.booking_end_time # None /\ d.booking_end_time <= d.booking_time
    \/ d.number_of_guests <= 0

\* C15: a create_booking or update_booking call with a draft whose end time
\* is not after its start time, or whose guest count is not positive, is
\* rejected without any access to the store: the checker has not run (no
\* read_table, no read_bookings) and no INSERT/UPDATE was issued, so no
\* access of the call can have failed in the store.
C15_RejectedBeforeStore ==
    ((IsCreate \/ IsUpdate) /\ Malformed(last.draft))
    => /\ last.ok = FALSE
       /\ last.ret = None
       /\ ~last.checked
       /\ failed = {}

\* C16: when read_table or read_bookings failed in the store during a call
\* of the checker (by the caller or inside create_booking), the checker
\* answered available = false, and create_booking stored nothing and
\* returned None.
C16_FailsClosed ==
    (/\ IsCheck \/ IsCreate
     /\ last.checked
     /\ failed \cap {"read_table", "read_bookings"} # {})
    => /\ last.avail.available = FALSE
       /\ IsCreate => last.ret = None

\* why the checker turned a create_booking call down, as create_booking
\* has it in availability_result
Reason(result) ==
    IF ~result.table_exists THEN <<"table missing", None>>
    ELSE IF ~result.table_active THEN <<"table inactive", None>>
    ELSE <<"conflict", result.conflicting_booking>>

\* C17: two create_booking calls that the availability check turned down
\* for different reasons (table missing, table inactive, conflict with a
\* given booking id) returned different values to their callers.
C17_ReasonsDistinct ==
    \A p, q \in Procs :
        (/\ calls[p].pc = "done"
         /\ calls[q].pc = "done"
         /\ calls[p].booking.booking_end_time # None
         /\ calls[q].booking.booking_end_time # None
         /\ ~calls[p].avail.available
         /\ ~calls[q].avail.available
         /\ Reason(calls[p].avail) # Reason(calls[q].avail))
        => calls[p].ret # calls[q].ret

\* C18: a create_booking, update_booking or delete_booking call whose
\* writing statement failed in the store does not end like a call that was
\* rejected or found no row (create_booking returning None, update_booking
\* and delete_booking returning False): the caller is given the error of
\* the store; and the bookings are as they were before the statement.
C18_Step ==
    (/\ last'.op \in {"create_booking", "update_booking", "delete_booking"}
     /\ "write" \in failed')
    => /\ ~(last'.ret = None /\ last'.ok = FALSE)
       /\ UNCHANGED <<bookings, nextId>>

C18_StoreErrorSurfaced == [][C18_Step]_vars

\* C19: a create_booking call for a stored table whose is_active is false
\* returns None and leaves users, tables, bookings and the id sequence as
\* they were, whatever the table's status and the stored bookings.
C19_Step ==
    (/\ last'.op = "create_booking"
     /\ last'.draft.table_id \in DOMAIN tables
     /\ ~tables[last'.draft.table_id].is_active)
    => /\ last'.ret = None
       /\ UNCHANGED <<users, tables, bookings, nextId>>

C19_InactiveNeverBooked == [][C19_Step]_vars

\* create_booking returned None for a well-formed draft on an inactive
\* table of status available, with no booking stored for that table
C19_Witness ==
    /\ IsCreate
    /\ WellFormed(last.draft)
    /\ last.draft.table_id \in DOMAIN tables
    /\ ~tables[last.draft.table_id].is_active
    /\ tables[last.draft.table_id].status = "available"
    /\ \A i \in DOMAIN bookings : bookings[i].table_id # last.draft.table_id
    /\ last.ret = None
    /\ last.avail = [NoResult EXCEPT !.table_exists = TRUE]

\* C20: delete_booking of a stored id returns True without an availability
\* check, whatever the booking's status, whether its table is active and
\* whatever other bookings overlap it; the bookings are then the stored
\* ones without that row, and users and tables are unchanged.
C20_Step ==
    (last'.op = "delete_booking" /\ last'.id \in DOMAIN bookings)
    => /\ last'.ok = TRUE
       /\ ~last'.checked
       /\ DOMAIN bookings' = DOMAIN bookings \ {last'.id}
       /\ \A i \in DOMAIN bookings' : bookings'[i] = bookings[i]
       /\ UNCHANGED <<users, tables>>

C20_DeleteUnconditional == [][C20_Step]_vars

\* delete_booking succeeded while every table was inactive, and the other
\* booking is still stored
C20_Witness ==
    /\ IsDelete
    /\ last.ok = TRUE
    /\ last.id \notin DOMAIN bookings
    /\ DOMAIN tables = TableIds
    /\ \A t \in TableIds : ~tables[t].is_active
    /\ DOMAIN bookings # {}

\* C21: delete_user of a stored user returns True and removes the user and
\* exactly the bookings of that user; delete_table of a table that still has
\* bookings returns False and leaves tables and bookings as they were; and
\* after every step each stored booking is of a stored user and a stored
\* table.
C21_Step ==
    /\ (last'.op = "delete_user" /\ last'.id \in users)
       => /\ last'.ok = TRUE
          /\ users' = users \ {last'.id}
          /\ DOMAIN bookings' =
                {i \in DOMAIN bookings : bookings[i].user_id # last'.id}
          /\ \A i \in DOMAIN bookings' : bookings'[i] = bookings[i]
    /\ (/\ last'.op = "delete_table"
        /\ \E i \in DOMAIN bookings : bookings[i].table_id = last'.id)
       => /\ last'.ok = FALSE
          /\ UNCHANGED <<tables, bookings>>
    /\ \A i \in DOMAIN bookings' :
          /\ bookings'[i].user_id \in users'
          /\ bookings'[i].table_id \in DOMAIN tables'

C21_ReferentialPolicy == [][C21_Step]_vars

\* delete_user removed a user after every id had been handed out, and one
\* booking, of the user who is left, is stored
C21_Witness ==
    /\ last.op = "delete_user"
    /\ last.ok = TRUE
    /\ last.id \notin users
    /\ nextId > MaxBookingId
    /\ Cardinality(DOMAIN bookings) = MaxBookingId - 1
    /\ \A i \in DOMAIN bookings : bookings[i].user_id \in users

\* C22: for a pending/confirmed stored booking E without end time, of the
\* candidate's table and date and not excluded, the checker takes the
\* interval [E.start, E.start + 2 hours), whatever E.start is: when
\* candidate.start < E.start + 2h and candidate.end > E.start the answer is
\* available = false, and a booking without end time is reported as
\* conflicting only when that holds.
C22_LegacyInterval ==
    IsCheck /\ TableStoredActive(last.draft)
    => /\ \A i \in DOMAIN bookings \ {last.id} :
             (/\ SameTableDate(i, last.draft)
              /\ bookings[i].status \in ActiveStatuses
              /\ bookings[i].booking_end_time = None
              /\ last.draft.booking_time
                    < bookings[i].booking_time + DefaultDuration
              /\ last.draft.booking_end_time > bookings[i].booking_time)
             => last.avail.available = FALSE
       /\ (/\ last.avail.conflicting_booking \in DOMAIN bookings
           /\ bookings[last.avail.conflicting_booking].booking_end_time = None)
          => LET E == bookings[last.avail.conflicting_booking] IN
                /\ last.draft.booking_time < E.booking_time + DefaultDuration
                /\ last.draft.booking_end_time > E.booking_time

\* the end of the effective interval of a stored booking: its end time, or
\* its start time + 2 hours when it has none
EffectiveEnd(b) ==
    IF b.booking_end_time # None THEN b.booking_end_time
    ELSE b.booking_time + DefaultDuration

\* C23: a conflicting_booking returned by the checker is a stored row of
\* the requested table and date, with status pending or confirmed, with an
\* id other than exclude_booking_id, whose effective interval shares time
\* with the candidate's; the answer is then not available.  (Which of
\* several conflicting rows is returned is left open.)
C23_ConflictIsGenuine ==
    (IsCheck /\ last.avail.conflicting_booking # None)
    => /\ last.avail.conflicting_booking \in DOMAIN bookings
       /\ last.avail.conflicting_booking # last.id
       /\ last.avail.available = FALSE
       /\ LET E == bookings[last.avail.conflicting_booking] IN
             /\ E.table_id = last.draft.table_id
             /\ E.booking_date = last.draft.booking_date
             /\ E.status \in ActiveStatuses
             /\ Intersect(last.draft.booking_time,
                          last.draft.booking_end_time,
                          E.booking_time, EffectiveEnd(E))

\* two stored bookings conflict with the candidate and the checker returned
\* the one with the higher id, a booking without end time
C23_Witness ==
    /\ IsCheck
    /\ last.avail.conflicting_booking = 2
    /\ 1 \in Conflicting(read_bookings(last.draft.table_id,
                                       last.draft.booking_date),
                         last.draft.booking_time,
                         last.draft.booking_end_time, last.id)
    /\ bookings[2].booking_end_time = None

\* C24: an update_booking call with a draft that has no end time returns
\* False and leaves the bookings as they were: the stored row keeps its end
\* time, and no end time computed as start + 2 hours is written.
C24_Step ==
    (last'.op = "update_booking" /\ last'.draft.booking_end_time = None)
    => /\ last'.ok = FALSE
       /\ UNCHANGED bookings

C24_UpdateNeedsEndTime == [][C24_Step]_vars

\* C25: an update_booking call on a stored booking whose draft differs from
\* the stored row in the status only returns True, with no availability
\* check, and the row takes the draft's status, whatever the two statuses
\* are and whatever other bookings overlap the row.
C25_Step ==
    (/\ last'.op = "update_booking"
     /\ last'.id \in DOMAIN bookings
     /\ [to_dict(last'.draft) EXCEPT !.status = bookings[last'.id].status]
            = bookings[last'.id])
    => /\ last'.ok = TRUE
       /\ ~last'.checked
       /\ bookings' = [bookings EXCEPT
                          ![last'.id].status = last'.draft.status]

C26_ConnectionReleased ==
    \A p \in Procs :
        ops[p].pc \in {"returned", "raised"} => ops[p].connection # "open"

\* a read_* call whose query raised has returned [] with its connection
\* closed, and a create_all_tables call that failed at the third model has
\* returned False with its connection closed
C26_Witness ==
    \E p, q \in Procs :
        /\ ops[p].op \in ReadOps
        /\ ops[p].pc = "returned"
        /\ ops[p].result = "empty"
        /\ ops[p].connection = "closed"
        /\ ops[q].op = "create_all_tables"
        /\ ops[q].pc = "returned"
        /\ ops[q].result = "False"
        /\ ops[q].models_done = ModelCount - 1
        /\ ops[q].connection = "closed"

\* the pending/confirmed stored bookings of the candidate's table and date,
\* other than the excluded one, that share time with the candidate
C27_Relevant ==
    {i \in DOMAIN bookings \ {last.id} :
        /\ SameTableDate(i, last.draft)
        /\ bookings[i].status \in ActiveStatuses
        /\ IntersectsRow(last.draft, i)}

\* C27: the checker's result is fixed by the table's row and the bookings
\* of the requested table on the requested date alone: for a stored active
\* table it is available exactly when none of those bookings conflicts, and
\* a conflicting_booking is one of them; bookings of other tables or other
\* dates change nothing.
C27_OnlyTableAndDate ==
    IsCheck
    => IF last.draft.table_id \notin DOMAIN tables
       THEN last.avail = NoResult
       ELSE IF ~tables[last.draft.table_id].is_active
       THEN last.avail = [NoResult EXCEPT !.table_exists = TRUE]
       ELSE IF C27_Relevant = {}
       THEN last.avail = [available |-> TRUE, table_exists |-> TRUE,
                          table_active |-> TRUE, conflicting_booking |-> None]
       ELSE \E i \in C27_Relevant :
               last.avail = [available |-> FALSE, table_exists |-> TRUE,
                             table_active |-> TRUE, conflicting_booking |-> i]

\* the checker answered available although a pending/confirmed booking of
\* another table on the same date, and one of the same table on another
\* date, cover the candidate's interval
C27_Witness ==
    /\ IsCheck
    /\ last.avail.available = TRUE
    /\ \E i, j \in DOMAIN bookings :
          /\ bookings[i].table_id # last.draft.table_id
          /\ bookings[i].booking_date = last.draft.booking_date
          /\ bookings[i].status \in ActiveStatuses
          /\ IntersectsRow(last.draft, i)
          /\ bookings[j].table_id = last.draft.table_id
          /\ bookings[j].booking_date # last.draft.booking_date
          /\ bookings[j].status \in ActiveStatuses
          /\ IntersectsRow(last.draft, j)

\* C28: every result of check_table_availability, also one returned from
\* its except branch or after a failed read, has: available only with
\* table_exists, table_active and no conflicting_booking; table_active only
\* with table_exists; a conflicting_booking only with table_exists,
\* table_active and not available.
C28_ResultShape ==
    IsCheck
    => /\ last.avail.available
          => /\ last.avail.table_exists
             /\ last.avail.table_active
             /\ last.avail.conflicting_booking = None
       /\ last.avail.table_active => last.avail.table_exists
       /\ last.avail.conflicting_booking # None
          => /\ last.avail.table_exists
             /\ last.avail.table_active
             /\ ~last.avail.available

\* the checker was called without a start time for an active table that
\* has a pending/confirmed booking on the date: the exception left the
\* result at table_active, not available, no conflicting_booking
C28_Witness ==
    /\ IsCheck
    /\ last.checked
    /\ last.draft.booking_time = None
    /\ failed = {}
    /\ last.avail = [NoResult EXCEPT !.table_exists = TRUE,
                                     !.table_active = TRUE]
    /\ \E i \in DOMAIN bookings :
          /\ SameTableDate(i, last.draft)
          /\ bookings[i].status \in ActiveStatuses

\* C29: whenever a create_booking call inserts its row, the row's table is
\* stored with is_active true at the moment of the insert, however the
\* call's accesses interleave with update_table and delete_table calls.
C29_Step ==
    \A p \in Procs :
        (calls[p].pc = "insert" /\ calls'[p].ret # None)
        => /\ calls[p].booking.table_id \in DOMAIN tables
           /\ tables[calls[p].booking.table_id].is_active

C29_ActiveAtInsert == [][C29_Step]_vars

\* C30: an update_booking(id, draft) call that returns True leaves the ids
\* of the store as they were and every other row unchanged; the row of id
\* keeps its created_at, has an updated_at later than before, and has the
\* draft's user, table, date, start, end, guest count and status.
C30_Step ==
    (last'.op = "update_booking" /\ last'.ok = TRUE)
    => /\ last'.id \in DOMAIN bookings
       /\ DOMAIN bookings' = DOMAIN bookings
       /\ \A i \in DOMAIN bookings \ {last'.id} : bookings'[i] = bookings[i]
       /\ bookings'[last'.id].created_at = bookings[last'.id].created_at
       /\ bookings'[last'.id].updated_at # None
       /\ bookings'[last'.id].updated_at > bookings[last'.id].updated_at
       /\ bookings'[last'.id].user_id = last'.draft.user_id
       /\ bookings'[last'.id].table_id = last'.draft.table_id
       /\ bookings'[last'.id].booking_date = last'.draft.booking_date
       /\ bookings'[last'.id].booking_time = last'.draft.booking_time
       /\ bookings'[last'.id].booking_end_time = last'.draft.booking_end_time
       /\ bookings'[last'.id].number_of_guests = last'.draft.number_of_guests
       /\ bookings'[last'.id].status = last'.draft.status

C30_UpdateFrame == [][C30_Step]_vars

====
